---- MODULE Spec2Model ----
(***************************************************************************)
(* Model of package multierr (src/multierr.go).                            *)
(*                                                                         *)
(* An error value is nil, a singular error produced by external code, or   *)
(* the unexported slice type multi.  A multi is a Go slice header          *)
(* (backing array, len, cap); the backing arrays live in a heap, so that   *)
(* two headers can share storage exactly as two Go slices do.              *)
(***************************************************************************)
EXTENDS Integers, Sequences, FiniteSets, TLC

\* ------------------------------------------------------------------ bounds
\* Largest number of suberrors a caller ever accumulates in one value.
MaxLen == 4
\* Largest number of Append calls in one run.
MaxCalls == 4

\* The error variables the calling code holds, in a fixed order.
RegOrder == <<"x", "y">>
Regs == {RegOrder[i] : i \in DOMAIN RegOrder}
\* Backing arrays: the caller's variables keep at most one each alive and one
\* Append call allocates at most two (the literal and its growth).
ArrIds == 1..(Len(RegOrder) + 2)

\* ------------------------------------------------------------ error values
\* Singular errors of the calling code: the three sentinels of the tests and
\* one error that wraps whoops and has a two-line message.
Sentinels == {"oops", "whoops", "whoopsie"}
Errs == Sentinels \cup {"wrapped"}

Nil == [kind |-> "nil", id |-> "", arr |-> 0, len |-> 0, cap |-> 0]
Single(e) == [kind |-> "err", id |-> e, arr |-> 0, len |-> 0, cap |-> 0]
Multi(a, l, c) == [kind |-> "multi", id |-> "", arr |-> a, len |-> l, cap |-> c]

IsMulti(v) == v.kind = "multi"

VARIABLES regs, heap, FormatMessage, last, chain, calls

vars == <<regs, heap, FormatMessage, last, chain, calls>>

\* ------------------------------------------------------------ Go slices
\* The elements a slice header exposes: indices 1..len of its backing array.
Elems(h, m) == SubSeq(h[m.arr], 1, m.len)

\* A composite literal multi{...}: a new array of exactly these elements.
MakeSlice(h, id, xs) == [h EXCEPT ![id] = xs]

\* Capacity of the array the builtin append allocates when it must grow
\* (gc runtime: the needed length if it exceeds twice the old capacity, else
\* double below 256 elements; 16-byte elements are not rounded up below 17).
GrowCap(oldCap, newLen) ==
    IF newLen > 2 * oldCap THEN newLen
    ELSE IF oldCap < 256 THEN 2 * oldCap
    ELSE oldCap + (oldCap + 768) \div 4

\* Mutant of GoAppend: the in-place branch starts writing one slot early, over
\* the last element the slice already had.
GoAppendOffByOne(h, m, xs, fresh) ==
    LET n == Len(xs)
        newLen == m.len + n
    IN  IF newLen <= m.cap
        THEN [ret |-> Multi(m.arr, newLen, m.cap),
              heap |-> [h EXCEPT ![m.arr] =
                          [i \in 1..m.cap |->
                              IF i >= m.len /\ i < newLen
                              THEN xs[i - m.len + 1] ELSE h[m.arr][i]]]]
        ELSE LET c == IF newLen > 2 * m.cap THEN newLen ELSE 2 * m.cap
             IN  [ret |-> Multi(fresh, newLen, c),
                  heap |-> [h EXCEPT ![fresh] =
                              [i \in 1..c |->
                                  IF i <= m.len THEN h[m.arr][i]
                                  ELSE IF i <= newLen THEN xs[i - m.len]
                                  ELSE Nil]]]

\* The builtin append(m, xs...): in place when the capacity suffices, writing
\* only indices len+1..len+n of the shared array; otherwise into a new array.
GoAppend(h, m, xs, fresh) ==
    LET n == Len(xs)
        newLen == m.len + n
    IN  IF newLen <= m.cap
        THEN [ret |-> Multi(m.arr, newLen, m.cap),
              heap |-> [h EXCEPT ![m.arr] =
                          [i \in 1..m.cap |->
                              IF i > m.len /\ i <= newLen
                              THEN xs[i - m.len] ELSE h[m.arr][i]]]]
        ELSE LET c == GrowCap(m.cap, newLen)
             IN  [ret |-> Multi(fresh, newLen, c),
                  heap |-> [h EXCEPT ![fresh] =
                              [i \in 1..c |->
                                  IF i <= m.len THEN h[m.arr][i]
                                  ELSE IF i <= newLen THEN xs[i - m.len]
                                  ELSE Nil]]]

\* ------------------------------------------------------------------ Append
\* Mutant of AppendFn: the second test returns dest, so Append(nil, err) is nil.
AppendFnDropsErr(dest, err, h, f1, f2) ==
    IF err = Nil THEN [ret |-> dest, heap |-> h]
    ELSE IF dest = Nil THEN [ret |-> dest, heap |-> h]
    ELSE IF IsMulti(dest)
    THEN GoAppend(h, dest, IF IsMulti(err) THEN Elems(h, err) ELSE <<err>>, f1)
    ELSE IF IsMulti(err)
         THEN GoAppend(MakeSlice(h, f1, <<dest>>), Multi(f1, 1, 1),
                       Elems(h, err), f2)
         ELSE [ret |-> Multi(f1, 2, 2),
               heap |-> MakeSlice(h, f1, <<dest, err>>)]

\* Mutant of AppendFn: a lone error is wrapped, Append(nil, err) = multi{err}.
AppendFnWrapsSingle(dest, err, h, f1, f2) ==
    IF err = Nil THEN [ret |-> dest, heap |-> h]
    ELSE IF dest = Nil
    THEN IF IsMulti(err) THEN [ret |-> err, heap |-> h]
         ELSE [ret |-> Multi(f1, 1, 1), heap |-> MakeSlice(h, f1, <<err>>)]
    ELSE IF IsMulti(dest)
    THEN GoAppend(h, dest, IF IsMulti(err) THEN Elems(h, err) ELSE <<err>>, f1)
    ELSE IF IsMulti(err)
         THEN GoAppend(MakeSlice(h, f1, <<dest>>), Multi(f1, 1, 1),
                       Elems(h, err), f2)
         ELSE [ret |-> Multi(f1, 2, 2),
               heap |-> MakeSlice(h, f1, <<dest, err>>)]

\* Mutant of AppendFn: a singular err is put in front of a composite dest.
AppendFnPrepends(dest, err, h, f1, f2) ==
    IF err = Nil THEN [ret |-> dest, heap |-> h]
    ELSE IF dest = Nil THEN [ret |-> err, heap |-> h]
    ELSE IF IsMulti(dest)
    THEN IF IsMulti(err)
         THEN GoAppend(h, dest, Elems(h, err), f1)
         ELSE GoAppend(MakeSlice(h, f1, <<err>>), Multi(f1, 1, 1),
                       Elems(h, dest), f2)
    ELSE IF IsMulti(err)
         THEN GoAppend(MakeSlice(h, f1, <<dest>>), Multi(f1, 1, 1),
                       Elems(h, err), f2)
         ELSE [ret |-> Multi(f1, 2, 2),
               heap |-> MakeSlice(h, f1, <<dest, err>>)]

\* Mutant of AppendFn: a composite err is appended as one element.
AppendFnNoFlatten(dest, err, h, f1, f2) ==
    IF err = Nil THEN [ret |-> dest, heap |-> h]
    ELSE IF dest = Nil THEN [ret |-> err, heap |-> h]
    ELSE IF IsMulti(dest) THEN GoAppend(h, dest, <<err>>, f1)
    ELSE [ret |-> Multi(f1, 2, 2), heap |-> MakeSlice(h, f1, <<dest, err>>)]

\* Mutant of AppendFn: a singular dest is inserted in front of a composite err
\* in err's own array when that has room.
AppendFnReusesErr(dest, err, h, f1, f2) ==
    IF err = Nil THEN [ret |-> dest, heap |-> h]
    ELSE IF dest = Nil THEN [ret |-> err, heap |-> h]
    ELSE IF IsMulti(dest)
    THEN GoAppend(h, dest, IF IsMulti(err) THEN Elems(h, err) ELSE <<err>>, f1)
    ELSE IF IsMulti(err)
         THEN IF err.len < err.cap
              THEN [ret |-> Multi(err.arr, err.len + 1, err.cap),
                    heap |-> [h EXCEPT ![err.arr] =
                                [i \in 1..err.cap |->
                                    IF i = 1 THEN dest
                                    ELSE IF i <= err.len + 1 THEN h[err.arr][i - 1]
                                    ELSE h[err.arr][i]]]]
              ELSE GoAppend(MakeSlice(h, f1, <<dest>>), Multi(f1, 1, 1),
                            Elems(h, err), f2)
         ELSE [ret |-> Multi(f1, 2, 2),
               heap |-> MakeSlice(h, f1, <<dest, err>>)]

\* Append(dest, err) on heap h; f1 and f2 are unused array ids.
AppendFn(dest, err, h, f1, f2) ==
    IF err = Nil THEN [ret |-> dest, heap |-> h]
    ELSE IF dest = Nil THEN [ret |-> err, heap |-> h]
    ELSE IF IsMulti(dest)
    THEN IF IsMulti(err)
         THEN GoAppend(h, dest, Elems(h, err), f1)
         ELSE GoAppend(h, dest, <<err>>, f1)
    ELSE IF IsMulti(err)
         THEN GoAppend(MakeSlice(h, f1, <<dest>>), Multi(f1, 1, 1),
                       Elems(h, err), f2)
         ELSE [ret |-> Multi(f1, 2, 2),
               heap |-> MakeSlice(h, f1, <<dest, err>>)]

\* ------------------------------------------------------ ForEach, Len, All
\* ForEach(err, f): the sequence of arguments f is called with, in order.
RECURSIVE ForEachFrom(_, _, _)
ForEachFrom(h, m, i) ==
    IF i > m.len THEN <<>>
    ELSE <<h[m.arr][i]>> \o ForEachFrom(h, m, i + 1)

ForEach(h, err) ==
    IF err = Nil THEN <<>>
    ELSE IF IsMulti(err) THEN ForEachFrom(h, err, 1)
    ELSE <<err>>

\* Mutant of LenFn: cap(m) for len(m).
LenFnCap(err) ==
    IF err = Nil THEN 0
    ELSE IF IsMulti(err) THEN err.cap
    ELSE 1

LenFn(err) ==
    IF err = Nil THEN 0
    ELSE IF IsMulti(err) THEN err.len
    ELSE 1

\* All appends every argument of ForEach's callback to a nil slice.
RECURSIVE Collected(_, _)
Collected(errs, visits) ==
    IF visits = <<>> THEN errs
    ELSE Collected(Append(errs, Head(visits)), Tail(visits))

All(h, err) == Collected(<<>>, ForEach(h, err))

\* ------------------------------------------------------------- messages
\* Strings are sequences of one-character strings.
Msg(e) ==
    CASE e = "oops" -> <<"o", "o", "p", "s">>
      [] e = "whoops" -> <<"w", "h", "o", "o", "p", "s">>
      [] e = "whoopsie" -> <<"w", "h", "o", "o", "p", "s", "i", "e">>
      [] e = "wrapped" -> <<"c", "l", "o", "s", "e", ":", "\n",
                            "w", "h", "o", "o", "p", "s">>

\* fmt's %d of a non-negative int.
Digit(d) == <<"0", "1", "2", "3", "4", "5", "6", "7", "8", "9">>[d + 1]

RECURSIVE Itoa(_)
Itoa(n) == IF n < 10 THEN <<Digit(n)>> ELSE Itoa(n \div 10) \o <<Digit(n % 10)>>

\* strings.ReplaceAll(s, "\n", "\n\t")
RECURSIVE ReplaceAll(_)
ReplaceAll(s) ==
    IF s = <<>> THEN <<>>
    ELSE (IF Head(s) = "\n" THEN <<"\n", "\t">> ELSE <<Head(s)>>)
         \o ReplaceAll(Tail(s))

ErrorsOccurred ==
    <<" ", "e", "r", "r", "o", "r", "s", " ",
      "o", "c", "c", "u", "r", "r", "e", "d", ":", "\n">>

\* A formatter the application installs in place of the default one: the
\* messages joined by "; ".
RECURSIVE JoinFormat(_)
JoinFormat(msgs) ==
    IF msgs = <<>> THEN <<>>
    ELSE IF Len(msgs) = 1 THEN msgs[1]
    ELSE msgs[1] \o <<";", " ">> \o JoinFormat(Tail(msgs))

\* Mutant of DefaultLoop: the separating newline is written before the first
\* element too.
RECURSIVE DefaultLoopNewlineFirst(_, _, _)
DefaultLoopNewlineFirst(msgs, i, buf) ==
    IF i >= Len(msgs) THEN buf
    ELSE DefaultLoopNewlineFirst(msgs, i + 1,
            buf \o <<"\n">>
                \o <<"(">> \o Itoa(i + 1) \o <<")", " ">>
                \o ReplaceAll(msgs[i + 1]))

\* DefaultFormatMessage's loop, from 0-based index i with buffer buf; msgs[i+1]
\* is errs[i].Error().
RECURSIVE DefaultLoop(_, _, _)
DefaultLoop(msgs, i, buf) ==
    IF i >= Len(msgs) THEN buf
    ELSE DefaultLoop(msgs, i + 1,
            buf \o (IF i > 0 THEN <<"\n">> ELSE <<>>)
                \o <<"(">> \o Itoa(i + 1) \o <<")", " ">>
                \o ReplaceAll(msgs[i + 1]))

DefaultFormatMessage(msgs) ==
    DefaultLoop(msgs, 0, Itoa(Len(msgs)) \o ErrorsOccurred)

Formatters == {"DefaultFormatMessage", "JoinFormat"}

\* A call through the variable FormatMessage holding formatter fm.
CallFormat(fm, msgs) ==
    IF fm = "DefaultFormatMessage" THEN DefaultFormatMessage(msgs)
    ELSE JoinFormat(msgs)

\* err.Error() with formatter fm installed: the branch taken, the formatter
\* called (if any) and the string returned.
RECURSIVE ErrorFn(_, _, _)
\* Mutant of MultiError: DefaultFormatMessage is called directly, not through
\* the variable FormatMessage.
MultiErrorDefaultOnly(h, m, fm) ==
    IF m.len = 0 THEN [branch |-> "panic", fmt |-> "none", out |-> <<>>]
    ELSE IF m.len = 1
    THEN [branch |-> "single", fmt |-> "none", out |-> ErrorFn(h, h[m.arr][1], fm).out]
    ELSE [branch |-> "format", fmt |-> "DefaultFormatMessage",
          out |-> DefaultFormatMessage([i \in 1..m.len |-> ErrorFn(h, h[m.arr][i], fm).out])]

MultiError(h, m, fm) ==
    IF m.len = 0 THEN [branch |-> "panic", fmt |-> "none", out |-> <<>>]
    ELSE IF m.len = 1
    THEN [branch |-> "single", fmt |-> "none", out |-> ErrorFn(h, h[m.arr][1], fm).out]
    ELSE [branch |-> "format", fmt |-> fm,
          out |-> CallFormat(fm, [i \in 1..m.len |-> ErrorFn(h, h[m.arr][i], fm).out])]

ErrorFn(h, err, fm) ==
    IF IsMulti(err) THEN MultiError(h, err, fm)
    ELSE [branch |-> "own", fmt |-> "none", out |-> Msg(err.id)]

\* ------------------------------------------------------ errors.Is, errors.As
\* The wrapping error wraps the sentinel whoops; nothing else unwraps.
Unwrap(err) ==
    IF err.kind = "err" /\ err.id = "wrapped" THEN Single("whoops") ELSE Nil

\* Slices are not comparable; errors.Is compares only comparable targets.
Comparable(v) == ~IsMulti(v)

RECURSIVE IsChain(_, _, _)
RECURSIVE MultiIsFrom(_, _, _, _)

\* Mutant of MultiIsFrom: the loop returns the first element's answer.
MultiIsFirstOnly(h, m, target, i) ==
    IF i > m.len THEN FALSE
    ELSE IsChain(h, h[m.arr][i], target)

\* multi.Is: the range loop from index i, returning at the first match.
MultiIsFrom(h, m, target, i) ==
    IF i > m.len THEN FALSE
    ELSE IF IsChain(h, h[m.arr][i], target) THEN TRUE
    ELSE MultiIsFrom(h, m, target, i + 1)

MultiIs(h, m, target) == MultiIsFrom(h, m, target, 1)

\* errors.Is's loop over the Unwrap chain of a non-nil err.
IsChain(h, err, target) ==
    IF Comparable(target) /\ err = target THEN TRUE
    ELSE IF IsMulti(err) /\ MultiIs(h, err, target) THEN TRUE
    ELSE IF Unwrap(err) = Nil THEN FALSE
    ELSE IsChain(h, Unwrap(err), target)

ErrorsIs(h, err, target) ==
    IF err = Nil \/ target = Nil THEN err = target
    ELSE IsChain(h, err, target)

\* Dynamic types, their method sets, and the types errors.As can be asked for.
TypeOf(v) ==
    IF IsMulti(v) THEN "multi"
    ELSE IF v.id = "wrapped" THEN "*fmt.wrapError"
    ELSE "*errors.errorString"

MethodsOf(t) ==
    CASE t = "multi" -> {"Error", "As", "Is"}
      [] t = "*fmt.wrapError" -> {"Error", "Unwrap"}
      [] t = "*errors.errorString" -> {"Error"}

Interfaces == {"error", "interface{ Is(error) bool }"}

IfaceMethods(t) == IF t = "error" THEN {"Error"} ELSE {"Is"}

TargetTypes == {"*errors.errorString", "*fmt.wrapError"} \cup Interfaces

AssignableTo(t, target) ==
    \/ t = target
    \/ target \in Interfaces /\ IfaceMethods(target) \subseteq MethodsOf(t)

NoMatch == [ok |-> FALSE, val |-> Nil]

RECURSIVE AsChain(_, _, _)
RECURSIVE MultiAsFrom(_, _, _, _)

\* multi.As: the range loop from index i, returning at the first match; val
\* is what the target is left bound to.
MultiAsFrom(h, m, target, i) ==
    IF i > m.len THEN NoMatch
    ELSE IF AsChain(h, h[m.arr][i], target).ok THEN AsChain(h, h[m.arr][i], target)
    ELSE MultiAsFrom(h, m, target, i + 1)

MultiAs(h, m, target) == MultiAsFrom(h, m, target, 1)

\* errors.As's loop over the Unwrap chain.
AsChain(h, err, target) ==
    IF err = Nil THEN NoMatch
    ELSE IF AssignableTo(TypeOf(err), target) THEN [ok |-> TRUE, val |-> err]
    ELSE IF IsMulti(err) /\ MultiAs(h, err, target).ok THEN MultiAs(h, err, target)
    ELSE AsChain(h, Unwrap(err), target)

ErrorsAs(h, err, target) == AsChain(h, err, target)

\* --------------------------------------------------------- garbage collection
\* Arrays no live value refers to are unobservable, and so is the address of
\* an array: after every call the live arrays are numbered in the order in
\* which the live values first refer to them, and the others are dropped.
ArraysOf(vals) == {v.arr : v \in {w \in vals : IsMulti(w)}}

Range(s) == {s[i] : i \in DOMAIN s}

Min(S) == CHOOSE x \in S : \A y \in S : x <= y

FirstRef(roots, a) == Min({i \in DOMAIN roots : IsMulti(roots[i]) /\ roots[i].arr = a})

Rank(roots, a) ==
    Cardinality({b \in ArraysOf(Range(roots)) : FirstRef(roots, b) < FirstRef(roots, a)}) + 1

Moved(roots, v) == IF IsMulti(v) THEN Multi(Rank(roots, v.arr), v.len, v.cap) ELSE v

Collect(h, roots) ==
    [n \in ArrIds |->
        LET from == {a \in ArraysOf(Range(roots)) : Rank(roots, a) = n}
        IN  IF from = {} THEN <<>> ELSE h[CHOOSE a \in from : TRUE]]

RegVals(r) == {r[k] : k \in Regs}

FreeIds(r) == ArrIds \ ArraysOf(RegVals(r))

\* ------------------------------------------------------------------ state
\* regs: the caller's error variables.  heap: the backing arrays.
\* FormatMessage: the package variable.  last: the last call, its operands
\* and what it returned, with what All reported of the operands and of the
\* other variables just before it.  chain: whether the run so far is
\* x = Append(x, e1); ...; x = Append(x, en) and nothing else, with e1..en,
\* and the formatter installed at the last Append.  calls: Append calls made.
Init ==
    /\ regs = [k \in Regs |-> Nil]
    /\ heap = [a \in ArrIds |-> <<>>]
    /\ FormatMessage = "DefaultFormatMessage"
    /\ last = [op |-> "none"]
    /\ chain = [ok |-> TRUE, es |-> <<>>, made |-> "DefaultFormatMessage"]
    /\ calls = 0

\* What the calling code can pass: nil, a singular error, or a value it holds.
Operands(es) == {Nil} \cup {Single(e) : e \in es} \cup RegVals(regs)

\* The live values after regs[k] = Append(a, b) returned ret, in the order in
\* which the arrays are numbered.
Roots(nr, a, b, ret) ==
    [i \in 1..(Len(RegOrder) + 3) |->
        IF i <= Len(RegOrder) THEN nr[RegOrder[i]]
        ELSE IF i = Len(RegOrder) + 1 THEN a
        ELSE IF i = Len(RegOrder) + 2 THEN b
        ELSE ret]

\* regs[k] = Append(a, b)
AppendCall(k, a, b) ==
    /\ calls < MaxCalls
    /\ LenFn(a) + LenFn(b) <= MaxLen
    /\ \E f1 \in {Min(FreeIds(regs))} :
       \E f2 \in {Min(FreeIds(regs) \ {f1})} :
       \E r \in {AppendFn(a, b, heap, f1, f2)} :
       \E roots \in {Roots([regs EXCEPT ![k] = r.ret], a, b, r.ret)} :
          /\ regs' = [i \in Regs |-> Moved(roots, IF i = k THEN r.ret ELSE regs[i])]
          /\ heap' = Collect(r.heap, roots)
          /\ last' = [op |-> "Append", k |-> k, dest |-> Moved(roots, a),
                      err |-> Moved(roots, b), ret |-> Moved(roots, r.ret),
                      destAll |-> All(heap, a), errAll |-> All(heap, b),
                      kept |-> [j \in Regs \ {k} |-> All(heap, regs[j])]]
    /\ chain' = IF chain.ok /\ k = "x" /\ a = regs["x"] /\ b.kind = "err"
                THEN [ok |-> TRUE, es |-> Append(chain.es, b), made |-> FormatMessage]
                ELSE [ok |-> FALSE, es |-> <<>>, made |-> FormatMessage]
    /\ calls' = calls + 1
    /\ UNCHANGED FormatMessage

\* err = Append(err, e): the accumulation idiom on the variable x.
Accumulate(e) == AppendCall("x", regs["x"], Single(e))

\* FormatMessage = f
SetFormatMessage(f) ==
    /\ FormatMessage' = f
    /\ last' = [op |-> "SetFormatMessage", fmt |-> f]
    /\ chain' = [chain EXCEPT !.ok = FALSE, !.es = <<>>]
    /\ UNCHANGED <<regs, heap, calls>>

\* regs[k].Error()
ErrorCall(k) ==
    /\ regs[k] # Nil
    /\ last' = [op |-> "Error", arg |-> regs[k],
                res |-> ErrorFn(heap, regs[k], FormatMessage)]
    /\ UNCHANGED <<regs, heap, FormatMessage, chain, calls>>

\* Len(regs[k]), All(regs[k]) and ForEach(regs[k], f)
InspectCall(k) ==
    /\ last' = [op |-> "Inspect", arg |-> regs[k], len |-> LenFn(regs[k]),
                all |-> All(heap, regs[k]), visits |-> ForEach(heap, regs[k])]
    /\ UNCHANGED <<regs, heap, FormatMessage, chain, calls>>

\* errors.Is(regs[k], target)
IsCall(k, target) ==
    /\ last' = [op |-> "Is", arg |-> regs[k], target |-> target,
                res |-> ErrorsIs(heap, regs[k], target)]
    /\ UNCHANGED <<regs, heap, FormatMessage, chain, calls>>

\* errors.As(regs[k], &target) for a target of type t
AsCall(k, t) ==
    /\ last' = [op |-> "As", arg |-> regs[k], target |-> t,
                res |-> ErrorsAs(heap, regs[k], t)]
    /\ UNCHANGED <<regs, heap, FormatMessage, chain, calls>>

Next ==
    \E k \in Regs : \E a \in Operands({"oops", "whoops"}) : \E b \in Operands({"oops", "whoops"}) :
        AppendCall(k, a, b)

Spec == Init /\ [][Next]_vars

\* The accumulation idiom on one variable, with every singular error, the
\* formatter hook and the read-only operations.
NextObs ==
    \/ \E e \in Errs : Accumulate(e)
    \/ \E f \in Formatters : SetFormatMessage(f)
    \/ ErrorCall("x")
    \/ InspectCall("x")
    \/ \E e \in Errs : IsCall("x", Single(e))
    \/ \E t \in TargetTypes : AsCall("x", t)

SpecObs == Init /\ [][NextObs]_vars

\* ------------------------------------------------------------------ claims
LastIsAppend == last.op = "Append"

\* The messages of the elements of composite m, as suberror i reports them.
ElemMsgs(m) == [i \in 1..m.len |-> Msg(heap[m.arr][i].id)]

\* C1: Append(nil, nil) is nil, and Append(nil, x) and Append(x, nil) return
\* x itself (the same singular error or the same slice header), not a
\* composite around it; a singular x so returned renders as its own message.
Thm_C1 ==
    LastIsAppend =>
        /\ (last.err = Nil => last.ret = last.dest)
        /\ (last.dest = Nil => last.ret = last.err)
        /\ (last.ret.kind = "err" /\ (last.dest = Nil \/ last.err = Nil) =>
                ErrorFn(heap, last.ret, FormatMessage)
                    = [branch |-> "own", fmt |-> "none", out |-> Msg(last.ret.id)])

\* A composite passed through Append(nil, x) unchanged.
Wit_C1 == LastIsAppend /\ last.dest = Nil /\ IsMulti(last.err) /\ last.ret = last.err

\* C2: after x = nil; x = Append(x, e1); ...; x = Append(x, en) and nothing
\* else, All(x) is <<e1, ..., en>>, no element is a composite, and for n = 2
\* x is a composite of Len 2.
Thm_C2 ==
    chain.ok =>
        /\ All(heap, regs["x"]) = chain.es
        /\ \A i \in 1..Len(chain.es) : All(heap, regs["x"])[i].kind = "err"
        /\ (Len(chain.es) = 0 => regs["x"] = Nil)
        /\ (Len(chain.es) = 2 => IsMulti(regs["x"]) /\ LenFn(regs["x"]) = 2)

\* Three errors accumulated, the third through a reallocation.
Wit_C2 == chain.ok /\ Len(chain.es) >= 3 /\ chain.es[1] # chain.es[2]

\* The values the calling code can reach.
LiveVals ==
    RegVals(regs) \cup (IF LastIsAppend THEN {last.dest, last.err, last.ret} ELSE {})

\* C3: every composite that exists has at least 2 elements, so rendering it
\* takes neither the zero-element (panic) nor the one-element branch.
Thm_C3 ==
    \A v \in LiveVals :
        IsMulti(v) =>
            /\ v.len >= 2
            /\ v.len <= v.cap
            /\ Len(heap[v.arr]) = v.cap
            /\ MultiError(heap, v, FormatMessage).branch = "format"

\* A composite built from a singular dest and a composite err.
Wit_C3 == LastIsAppend /\ last.dest.kind = "err" /\ IsMulti(last.err) /\ IsMulti(last.ret)

\* C4 as stated: no Append call changes what All reports of a value the
\* caller still holds in another variable.
Orig_C4 ==
    LastIsAppend =>
        \A j \in DOMAIN last.kept : All(heap, regs[j]) = last.kept[j]

\* The call wrote into the array of dest, below the length of v.
Overwrites(v) ==
    /\ IsMulti(v) /\ IsMulti(last.dest)
    /\ last.dest.arr = v.arr
    /\ last.ret.arr = last.dest.arr
    /\ last.dest.len < v.len

\* C4 amended: an Append call changes what All reports of a value held in
\* another variable only if dest is a composite that shares that value's
\* backing array, is shorter than it and is extended in place.
Thm_C4 ==
    LastIsAppend =>
        \A j \in DOMAIN last.kept :
            ~Overwrites(regs[j]) => All(heap, regs[j]) = last.kept[j]

\* y = Append(x, d) extended x in place and y is still held, unchanged.
Wit_C4 ==
    /\ LastIsAppend /\ last.k = "x"
    /\ IsMulti(last.dest) /\ last.ret.arr = last.dest.arr
    /\ IsMulti(regs["y"]) /\ regs["y"].arr = last.dest.arr
    /\ regs["y"].len = last.dest.len
    /\ All(heap, regs["y"]) = last.kept["y"]

\* C9: All(Append(a, b)) is All(a) followed by All(b), both taken just before
\* the call, for every shape of a and b, and no element is a composite.
Thm_C9 ==
    LastIsAppend =>
        /\ All(heap, last.ret) = last.destAll \o last.errAll
        /\ \A i \in 1..LenFn(last.ret) : All(heap, last.ret)[i].kind = "err"
        /\ LenFn(last.ret) = Len(last.destAll) + Len(last.errAll)

\* A composite appended to itself.
Wit_C9 == LastIsAppend /\ IsMulti(last.dest) /\ last.err = last.dest

ElemIs(m, target, i) == ErrorsIs(heap, heap[m.arr][i], target)
ElemAs(m, t, i) == ErrorsAs(heap, heap[m.arr][i], t).ok

\* The sentinels a composite holds, directly or wrapped by an element.
Held(m) ==
    {heap[m.arr][i].id : i \in 1..m.len}
        \cup {Unwrap(heap[m.arr][i]).id : i \in {j \in 1..m.len : Unwrap(heap[m.arr][j]) # Nil}}

\* C5 as stated: errors.Is and errors.As on a composite are true exactly when
\* at least one element, taken alone, matches.
Orig_C5 ==
    /\ (last.op = "Is" /\ IsMulti(last.arg) =>
            (last.res <=> \E i \in 1..last.arg.len : ElemIs(last.arg, last.target, i)))
    /\ (last.op = "As" /\ IsMulti(last.arg) =>
            (last.res.ok <=> \E i \in 1..last.arg.len : ElemAs(last.arg, last.target, i)))

\* C5 amended: errors.Is on a composite is true exactly when some element
\* alone matches (so it is true of every sentinel the composite holds and
\* false of every other one); errors.As on a composite is true exactly when
\* the composite's own type is assignable to the target's type or some
\* element alone matches.
Thm_C5 ==
    /\ (last.op = "Is" /\ IsMulti(last.arg) =>
            /\ (last.res <=> \E i \in 1..last.arg.len : ElemIs(last.arg, last.target, i))
            /\ (last.target.id \in Sentinels =>
                    (last.res <=> last.target.id \in Held(last.arg))))
    /\ (last.op = "As" /\ IsMulti(last.arg) =>
            (last.res.ok <=>
                \/ AssignableTo("multi", last.target)
                \/ \E i \in 1..last.arg.len : ElemAs(last.arg, last.target, i)))

\* errors.Is matched a composite on an element that is not its first.
Wit_C5 ==
    /\ last.op = "Is" /\ IsMulti(last.arg) /\ last.res
    /\ ~ElemIs(last.arg, last.target, 1)

\* s with a tab after every newline, position by position.
Indented(s) ==
    LET nls(j) == Cardinality({q \in 1..(j - 1) : s[q] = "\n"})
    IN  [p \in 1..(Len(s) + nls(Len(s) + 1)) |->
            IF \E j \in 1..Len(s) : j + nls(j) = p
            THEN s[CHOOSE j \in 1..Len(s) : j + nls(j) = p]
            ELSE "\t"]

RECURSIVE JoinLines(_)
JoinLines(lines) ==
    IF Len(lines) = 1 THEN lines[1]
    ELSE lines[1] \o <<"\n">> \o JoinLines(Tail(lines))

\* The header and the N numbered entries of the default rendering.
ExpectedLines(msgs) ==
    [l \in 1..(Len(msgs) + 1) |->
        IF l = 1 THEN Itoa(Len(msgs)) \o SubSeq(ErrorsOccurred, 1, Len(ErrorsOccurred) - 1)
        ELSE <<"(">> \o Itoa(l - 1) \o <<")", " ">> \o Indented(msgs[l - 1])]

ThreeErrors ==
    <<"3", " ", "e", "r", "r", "o", "r", "s", " ",
      "o", "c", "c", "u", "r", "r", "e", "d", ":", "\n",
      "(", "1", ")", " ", "o", "o", "p", "s", "\n",
      "(", "2", ")", " ", "w", "h", "o", "o", "p", "s", "\n",
      "(", "3", ")", " ", "w", "h", "o", "o", "p", "s", "i", "e">>

\* C6: with the default formatter, a composite of N >= 2 elements renders as
\* the header "<N> errors occurred:" and, in insertion order, "(<i>) <message
\* i>" with a tab after every newline of a message, the N + 1 entries joined
\* by single newlines with no trailing newline; oops, whoops, whoopsie render
\* as the three-error text of the test.
Thm_C6 ==
    last.op = "Error" /\ IsMulti(last.arg) /\ last.arg.len >= 2
            /\ FormatMessage = "DefaultFormatMessage" =>
        /\ last.res.out = JoinLines(ExpectedLines(ElemMsgs(last.arg)))
        /\ last.res.out[Len(last.res.out)] # "\n"
        /\ ([i \in 1..last.arg.len |-> heap[last.arg.arr][i].id]
                = <<"oops", "whoops", "whoopsie">> => last.res.out = ThreeErrors)

\* The default rendering of a composite whose second element has a two-line
\* message.
Wit_C6 ==
    /\ last.op = "Error" /\ IsMulti(last.arg) /\ last.arg.len >= 3
    /\ last.res.fmt = "DefaultFormatMessage"
    /\ heap[last.arg.arr][2].id = "wrapped"

\* C7: Error() on a composite of >= 2 elements returns what the formatter
\* installed at that moment makes of the composite's current elements,
\* whichever formatter was installed when the composite was built; a singular
\* error's message does not pass through the formatter.
Thm_C7 ==
    last.op = "Error" =>
        /\ (IsMulti(last.arg) /\ last.arg.len >= 2 =>
                /\ last.res.fmt = FormatMessage
                /\ last.res.out = CallFormat(FormatMessage, ElemMsgs(last.arg)))
        /\ (last.arg.kind = "err" =>
                /\ last.res.fmt = "none"
                /\ last.res.out = Msg(last.arg.id))

\* A composite built under the default formatter, rendered by the replacement.
Wit_C7 ==
    /\ last.op = "Error" /\ IsMulti(last.arg)
    /\ chain.made = "DefaultFormatMessage"
    /\ last.res.fmt = "JoinFormat"

\* C8: Len(err) is the length of All(err) and the number of calls ForEach
\* makes, whose arguments in order are All(err); nil gives 0, no call and an
\* empty sequence; a singular error gives exactly itself; a composite gives
\* its elements.
Thm_C8 ==
    last.op = "Inspect" =>
        /\ last.len = Len(last.all)
        /\ last.len = Len(last.visits)
        /\ last.visits = last.all
        /\ (last.arg = Nil => last.len = 0 /\ last.all = <<>>)
        /\ (last.arg.kind = "err" => last.all = <<last.arg>>)
        /\ (IsMulti(last.arg) => last.all = Elems(heap, last.arg))

\* A composite with spare capacity inspected.
Wit_C8 == last.op = "Inspect" /\ IsMulti(last.arg) /\ last.arg.len < last.arg.cap

====
